---- MODULE Spec2Model ----
(***************************************************************************)
(* Forest Health Goods API (src/main.py): catalog CRUD, the editable site  *)
(* content record, the admin guard, startup seeding and checkout pricing.  *)
(*                                                                         *)
(* Python floats are IEEE-754 binary64.  A non-negative float is held      *)
(* exactly as three 24-bit limbs <<a, b, c>> of the fixed-point integer    *)
(* (a * 2^48 + b * 2^24 + c) = value * 2^60; every float in [2^-7, 4096)   *)
(* and 0.0 is such an integer, and sums and products of such floats are    *)
(* rounded to 53 significant bits as the hardware rounds them.  A float    *)
(* that is the result of round(x, 2) or of parsing a decimal literal is    *)
(* named by that decimal: cents (1/100) for rounded amounts, mills         *)
(* (1/1000) for catalog prices; prices are 0 or at least 0.008.            *)
(***************************************************************************)
EXTENDS Integers, Sequences, FiniteSets, TLC

(***************************************************************************)
(* IEEE-754 binary64 arithmetic                                            *)
(***************************************************************************)
Limb == 16777216          \* 2^24
Unit == 4096              \* 1.0 = Unit * 2^48, i.e. 2^60
Mant == 53                \* significand bits of a binary64

RECURSIVE BitLen(_)
BitLen(n) == IF n = 0 THEN 0 ELSE 1 + BitLen(n \div 2)

\* carry propagation between limbs (the top limb takes the last carry)
Norm(a, b, c) ==
    LET b1 == b + (c \div Limb)
    IN  <<a + (b1 \div Limb), b1 % Limb, c % Limb>>

HighBit(x) ==
    IF x[1] > 0 THEN 48 + BitLen(x[1])
    ELSE IF x[2] > 0 THEN 24 + BitLen(x[2])
    ELSE BitLen(x[3])

\* round-to-nearest, ties-to-even, to a 53-bit significand; sticky tells
\* that the exact value has non-zero bits below 2^-60
Round53(x, sticky) ==
    LET cut == HighBit(x) - Mant
    IN  IF cut <= 0 THEN x
        ELSE LET p    == 2 ^ cut
                 low  == x[3] % p
                 half == p \div 2
                 lsb  == (x[3] \div p) % 2
                 up   == \/ low > half
                         \/ low = half /\ (sticky \/ lsb = 1)
             IN  Norm(x[1], x[2], x[3] - low + (IF up THEN p ELSE 0))

\* float + float
FAdd(x, y) == Round53(Norm(x[1] + y[1], x[2] + y[2], x[3] + y[3]), FALSE)

\* float * int (the int converts to a float exactly)
FMul(x, q) == Round53(Norm(x[1] * q, x[2] * q, x[3] * q), FALSE)

\* the float nearest to the decimal n / d (float("24.99"), d in {100, 1000})
ToDouble(n, d) ==
    LET q0 == n \div d
        r0 == n % d
        f1 == (r0 * Unit) \div d
        r1 == (r0 * Unit) % d
        f2 == (r1 * Unit) \div d
        r2 == (r1 * Unit) % d
        f3 == (r2 * Unit) \div d
        r3 == (r2 * Unit) % d
        f4 == (r3 * Unit) \div d
        r4 == (r3 * Unit) % d
        f5 == (r4 * Unit) \div d
        r5 == (r4 * Unit) % d
    IN  Round53(<<q0 * Unit + f1, f2 * Unit + f3, f4 * Unit + f5>>, r5 # 0)

\* Python round(x, 2): the decimal with two fractional digits nearest to the
\* exact value of x, ties to even; the result is returned in cents
PyRound2(x) ==
    LET y    == Norm(x[1] * 100, x[2] * 100, x[3] * 100)
        ip   == y[1] \div Unit
        fa   == y[1] % Unit
        rest == y[2] > 0 \/ y[3] > 0
        up   == \/ fa > Unit \div 2
                \/ fa = Unit \div 2 /\ (rest \/ ip % 2 = 1)
    IN  ip + (IF up THEN 1 ELSE 0)

\* x < n for a float x and a small integer n
FLess(x, n) == x[1] < n * Unit

FZero == <<0, 0, 0>>

(***************************************************************************)
(* Values                                                                  *)
(***************************************************************************)
None == "<None>"          \* Python None where a string is expected
NoDoc == [none |-> TRUE]  \* Python None where a document is expected

ADMIN_TOKEN == "forest-admin-token-001"

\* bounds of the model
MaxIds    == 6            \* catalog and content documents ever inserted
MaxOrders == 1            \* orders ever inserted
MaxCart   == 2            \* lines of a cart
MaxQty    == 2            \* quantity of a cart line
MaxProcs  == 2            \* processes started against the one store

(***************************************************************************)
(* bson.ObjectId: 24 hexadecimal characters, printed in lower case         *)
(***************************************************************************)
InvalidId == "<InvalidId>"

HexChars == {"0", "1", "2", "3", "4", "5", "6", "7", "8", "9",
             "a", "b", "c", "d", "e", "f", "A", "B", "C", "D", "E", "F"}

LowerChar(ch) ==
    CASE ch = "A" -> "a" [] ch = "B" -> "b" [] ch = "C" -> "c"
      [] ch = "D" -> "d" [] ch = "E" -> "e" [] ch = "F" -> "f"
      [] OTHER -> ch

RECURSIVE Lower(_)
Lower(s) ==
    IF Len(s) = 0 THEN ""
    ELSE LowerChar(SubSeq(s, 1, 1)) \o Lower(SubSeq(s, 2, Len(s)))

\* ObjectId(s) followed by str(): InvalidId stands for the raised exception
ParseObjectId(s) ==
    IF Len(s) = 24 /\ \A i \in 1..24 : SubSeq(s, i, i) \in HexChars
    THEN Lower(s)
    ELSE InvalidId

HexDigit(n) == SubSeq("0123456789abcdef", n + 1, n + 1)

\* the n-th identifier the store generates
NewId(n) == "65f0a1b2c3d4e5f6a7b8c9" \o HexDigit(n \div 16) \o HexDigit(n % 16)

(***************************************************************************)
(* Document store: a collection is the sequence of its documents in        *)
(* insertion order; a document is a record with an _id field               *)
(***************************************************************************)
Ids(coll) == {coll[i]._id : i \in 1..Len(coll)}

Matches(coll, oid) == {i \in 1..Len(coll) : coll[i]._id = oid}

\* collection.find_one({"_id": oid})
FindOne(coll, oid) ==
    IF Matches(coll, oid) = {} THEN NoDoc
    ELSE coll[CHOOSE i \in Matches(coll, oid) : \A j \in Matches(coll, oid) : i <= j]

\* collection.find_one({})
FindFirst(coll) == IF Len(coll) = 0 THEN NoDoc ELSE coll[1]

Merge(doc, set) ==
    [f \in DOMAIN doc \cup DOMAIN set |-> IF f \in DOMAIN set THEN set[f] ELSE doc[f]]

\* mutant: update_one(..., upsert=True)
UpdateOneUpsert(coll, oid, set) ==
    IF Matches(coll, oid) = {}
    THEN Append(coll, Merge([_id |-> oid], set))
    ELSE [i \in 1..Len(coll) |-> IF coll[i]._id = oid THEN Merge(coll[i], set) ELSE coll[i]]

\* collection.update_one({"_id": oid}, {"$set": set}), no upsert
UpdateOne(coll, oid, set) ==
    [i \in 1..Len(coll) |-> IF coll[i]._id = oid THEN Merge(coll[i], set) ELSE coll[i]]

\* collection.delete_one({"_id": oid})
DeleteOne(coll, oid) ==
    SelectSeq(coll, LAMBDA d : d._id # oid)

\* create_document(collection, data): insert with a generated identifier
InsertDoc(coll, data, n) == Append(coll, Merge(data, [_id |-> NewId(n)]))

\* doc["id"] = str(doc.pop("_id"))
WithId(doc) ==
    [f \in (DOMAIN doc \ {"_id"}) \cup {"id"} |-> IF f = "id" THEN doc._id ELSE doc[f]]

(***************************************************************************)
(* Auth guard                                                              *)
(***************************************************************************)
StartsWith(s, pre) == Len(s) >= Len(pre) /\ SubSeq(s, 1, Len(pre)) = pre

RECURSIVE IndexOf(_, _, _)
IndexOf(s, ch, i) ==
    IF i > Len(s) THEN 0
    ELSE IF SubSeq(s, i, i) = ch THEN i ELSE IndexOf(s, ch, i + 1)

RECURSIVE LastIndexOf(_, _, _)
LastIndexOf(s, ch, i) ==
    IF i = 0 THEN 0
    ELSE IF SubSeq(s, i, i) = ch THEN i ELSE LastIndexOf(s, ch, i - 1)

\* mutant: s.rsplit(" ", 1)[1]
AfterLastSpace(s) == SubSeq(s, LastIndexOf(s, " ", Len(s)) + 1, Len(s))

\* s.split(" ", 1)[1] for an s that contains a space
AfterFirstSpace(s) == SubSeq(s, IndexOf(s, " ", 1) + 1, Len(s))

\* mutant: the token is not compared
require_admin_any_token(authorization) ==
    IF authorization = None \/ authorization = "" \/ ~StartsWith(authorization, "Bearer ")
    THEN 401
    ELSE 200

\* 401, 403, or 200 when the guard returns True
require_admin(authorization) ==
    IF authorization = None \/ authorization = "" \/ ~StartsWith(authorization, "Bearer ")
    THEN 401
    ELSE IF AfterFirstSpace(authorization) # ADMIN_TOKEN THEN 403 ELSE 200

GuardDetail(status) == IF status = 401 THEN "Missing token" ELSE "Invalid token"

(***************************************************************************)
(* Seed data                                                               *)
(***************************************************************************)
\* title and price (in mills) of the sample products
SAMPLE_PRODUCTS == <<
    [title |-> "Forest Greens Superfood Blend", price |-> 24990],
    [title |-> "Herbal Calm Tea",               price |-> 12500],
    [title |-> "Bamboo Fiber Bottle",           price |-> 18000],
    [title |-> "Wild Berry Vitamin C",          price |-> 14000] >>

default_content ==
    [hero_title    |-> "Wellness from the Forest",
     hero_subtitle |-> "Pure, eco-friendly goods crafted with care. Fresh, holistic, and delightfully simple for everyday vitality.",
     hero_image    |-> None]

fallback_content ==
    [hero_title    |-> "Wellness from the Forest",
     hero_subtitle |-> "Pure, eco-friendly goods crafted with care.",
     hero_image    |-> None]

(***************************************************************************)
(* Request inputs                                                          *)
(***************************************************************************)
Headers ==
    {None, "", "Bearer", "Bearer " \o ADMIN_TOKEN, "Bearer wrong-token",
     "Bearer  " \o ADMIN_TOKEN, "bearer " \o ADMIN_TOKEN, "Basic " \o ADMIN_TOKEN}

\* path and cart identifiers: the first seeded product, the first document
\* created after seeding (lower and upper case), and a malformed identifier
IdInputs ==
    {"65f0a1b2c3d4e5f6a7b8c901", "65f0a1b2c3d4e5f6a7b8c906",
     "65F0A1B2C3D4E5F6A7B8C906", "not-an-id"}

PriceInputs == {1025, 24998}

ProductInputs == [title : {"Pine Resin Balm"}, price : PriceInputs]

CategoryInputs == [name : {"Teas"}, slug : {"teas", "herbal"}]

ContentInputs ==
    [hero_title    : {None, "Calm from the Forest"},
     hero_subtitle : {None, "Small-batch goods."},
     hero_image    : {None, "/images/hero.jpg"}]

\* ObjectId over the identifiers requests carry, computed once
ObjectIdTable == [s \in IdInputs |-> ParseObjectId(s)]

ObjectId(s) == ObjectIdTable[s]

CartItems == [product_id : IdInputs, quantity : 1..MaxQty]

RECURSIVE SeqsUpTo(_, _)
SeqsUpTo(S, n) ==
    IF n = 0 THEN {<<>>}
    ELSE LET shorter == SeqsUpTo(S, n - 1)
         IN  shorter \cup {Append(s, e) : s \in {t \in shorter : Len(t) = n - 1}, e \in S}

Carts == SeqsUpTo(CartItems, MaxCart)

Customer ==
    [name |-> "Mara L.", email |-> "mara@example.com", phone |-> None,
     address |-> "1 Fern Way", city |-> "Oslo", country |-> "NO", postal_code |-> "0150"]

(***************************************************************************)
(* State                                                                   *)
(***************************************************************************)
VARIABLES
    dbAvailable,   \* database.db is not None
    started,       \* on_startup has run at least once
    product,       \* db["product"]
    category,      \* db["category"]
    content,       \* db["content"]
    order,         \* db["order"]
    nextId,        \* number of the next identifier the store generates
    req,           \* the last call: [op, hdr, arg]
    resp,          \* its outcome: [status, detail, body]
    seeding        \* where each concurrently started process is in its seeding run: [pc, i]

vars ==
    <<dbAvailable, started, product, category, content, order, nextId, req, resp, seeding>>

\* the processes started against the one store
Procs == 1..MaxProcs

At(pc, i) == [pc |-> pc, i |-> i]

store == <<product, category, content, order>>

Req(op, hdr, arg) == [op |-> op, hdr |-> hdr, arg |-> arg]

Resp(status, detail, body) == [status |-> status, detail |-> detail, body |-> body]

Init ==
    /\ dbAvailable \in BOOLEAN
    /\ started = FALSE
    /\ product = <<>>
    /\ category = <<>>
    /\ content = <<>>
    /\ order = <<>>
    /\ nextId = 1
    /\ req = Req("none", None, NoDoc)
    /\ resp = Resp(0, None, NoDoc)
    /\ seeding = [p \in Procs |-> At("start", 1)]

\* identifiers are a bounded resource of the model
CatalogInserts == nextId - 1 - Len(order)

CanInsert(k) == CatalogInserts + k <= MaxIds

\* the dependency require_admin raised: the endpoint body does not run
Rejected(op, h) ==
    /\ require_admin(h) # 200
    /\ req' = Req(op, h, NoDoc)
    /\ resp' = Resp(require_admin(h), GuardDetail(require_admin(h)), NoDoc)
    /\ UNCHANGED <<dbAvailable, started, seeding, store, nextId>>

NoDatabase(op, h, arg) ==
    /\ ~dbAvailable
    /\ req' = Req(op, h, arg)
    /\ resp' = Resp(500, "Database not available", NoDoc)
    /\ UNCHANGED <<dbAvailable, started, seeding, store, nextId>>

(***************************************************************************)
(* Startup seeding                                                         *)
(***************************************************************************)
RECURSIVE InsertAll(_, _, _, _)
InsertAll(coll, docs, i, n) ==
    IF i > Len(docs) THEN coll
    ELSE InsertAll(InsertDoc(coll, docs[i], n), docs, i + 1, n + 1)

SeedProducts(coll, n) ==
    IF Len(coll) = 0 THEN InsertAll(coll, SAMPLE_PRODUCTS, 1, n) ELSE coll

\* mutant: no content_count check
SeedContentAlways(coll, n) == InsertDoc(coll, default_content, n)

SeedContent(coll, n) ==
    IF Len(coll) = 0 THEN InsertDoc(coll, default_content, n) ELSE coll

seed_products_if_needed ==
    IF ~dbAvailable
    THEN UNCHANGED <<store, nextId>>
    ELSE LET p == SeedProducts(product, nextId)
             n == nextId + (Len(p) - Len(product))
             c == SeedContent(content, n)
         IN  /\ CanInsert((Len(p) - Len(product)) + (Len(c) - Len(content)))
             /\ product' = p
             /\ content' = c
             /\ nextId' = n + (Len(c) - Len(content))
             /\ UNCHANGED <<category, order>>

on_startup ==
    /\ seed_products_if_needed
    /\ started' = TRUE
    /\ req' = Req("on_startup", None, [again |-> req.op = "on_startup"])
    /\ resp' = Resp(0, None, NoDoc)
    /\ UNCHANGED <<dbAvailable, seeding>>

(***************************************************************************)
(* Startup seeding, one store operation at a time: several processes run   *)
(* seed_products_if_needed against the same store, and nothing orders the  *)
(* store operations of one run against those of another                    *)
(***************************************************************************)
Goto(p, pc, i) == seeding' = [seeding EXCEPT ![p] = At(pc, i)]

\* the run of process p is over and the process serves requests
SeedReturn(p) ==
    /\ Goto(p, "done", 1)
    /\ started' = TRUE

\* db is None check, then count = db["product"].count_documents({})
seed_count_products(p) ==
    /\ seeding[p].pc = "start"
    /\ IF ~dbAvailable
       THEN SeedReturn(p)
       ELSE /\ IF Len(product) = 0
               THEN Goto(p, "insert_product", 1)
               ELSE Goto(p, "count_content", 1)
            /\ UNCHANGED started
    /\ UNCHANGED <<dbAvailable, store, nextId, req, resp>>

\* one create_document("product", p) of the loop over SAMPLE_PRODUCTS
seed_insert_product(p) ==
    /\ seeding[p].pc = "insert_product"
    /\ product' = InsertDoc(product, SAMPLE_PRODUCTS[seeding[p].i], nextId)
    /\ nextId' = nextId + 1
    /\ IF seeding[p].i < Len(SAMPLE_PRODUCTS)
       THEN Goto(p, "insert_product", seeding[p].i + 1)
       ELSE Goto(p, "count_content", 1)
    /\ UNCHANGED <<dbAvailable, started, category, content, order, req, resp>>

\* content_count = db["content"].count_documents({}), and the branch on it
seed_count_content(p) ==
    /\ seeding[p].pc = "count_content"
    /\ IF Len(content) = 0
       THEN Goto(p, "insert_content", 1) /\ UNCHANGED started
       ELSE SeedReturn(p)
    /\ UNCHANGED <<dbAvailable, store, nextId, req, resp>>

\* create_document("content", default_content)
seed_insert_content(p) ==
    /\ seeding[p].pc = "insert_content"
    /\ content' = InsertDoc(content, default_content, nextId)
    /\ nextId' = nextId + 1
    /\ SeedReturn(p)
    /\ UNCHANGED <<dbAvailable, product, category, order, req, resp>>

(***************************************************************************)
(* Products                                                                *)
(***************************************************************************)
create_product ==
    /\ started
    /\ \E h \in Headers :
        \/ Rejected("create_product", h)
        \/ /\ require_admin(h) = 200
           /\ \E payload \in ProductInputs :
                \/ NoDatabase("create_product", h, payload)
                \/ /\ dbAvailable
                   /\ CanInsert(1)
                   /\ product' = InsertDoc(product, payload, nextId)
                   /\ nextId' = nextId + 1
                   /\ req' = Req("create_product", h, payload)
                   /\ resp' = Resp(200, None, WithId(FindOne(product', NewId(nextId))))
                   /\ UNCHANGED <<dbAvailable, started, seeding, category, content, order>>

update_product ==
    /\ started
    /\ \E h \in Headers :
        \/ Rejected("update_product", h)
        \/ /\ require_admin(h) = 200
           /\ \E product_id \in IdInputs, payload \in ProductInputs :
                LET arg == [id |-> product_id, payload |-> payload]
                    oid == ObjectId(product_id)
                    new == UpdateOne(product, oid, payload)
                    doc == FindOne(new, oid)
                IN  \/ NoDatabase("update_product", h, arg)
                    \/ /\ dbAvailable
                       /\ req' = Req("update_product", h, arg)
                       /\ IF oid = InvalidId
                          THEN /\ resp' = Resp(400, "Invalid product id", NoDoc)
                               /\ UNCHANGED product
                          ELSE /\ product' = new
                               /\ resp' = IF doc = NoDoc
                                          THEN Resp(404, "Product not found", NoDoc)
                                          ELSE Resp(200, None, WithId(doc))
                       /\ UNCHANGED <<dbAvailable, started, seeding, category, content, order, nextId>>

delete_product ==
    /\ started
    /\ \E h \in Headers :
        \/ Rejected("delete_product", h)
        \/ /\ require_admin(h) = 200
           /\ \E product_id \in IdInputs :
                LET arg == [id |-> product_id]
                    oid == ObjectId(product_id)
                    new == DeleteOne(product, oid)
                IN  \/ NoDatabase("delete_product", h, arg)
                    \/ /\ dbAvailable
                       /\ req' = Req("delete_product", h, arg)
                       /\ IF oid = InvalidId
                          THEN /\ resp' = Resp(400, "Invalid product id", NoDoc)
                               /\ UNCHANGED product
                          ELSE /\ product' = new
                               /\ resp' = IF Len(product) - Len(new) = 0
                                          THEN Resp(404, "Product not found", NoDoc)
                                          ELSE Resp(200, None, [ok |-> TRUE])
                       /\ UNCHANGED <<dbAvailable, started, seeding, category, content, order, nextId>>

(***************************************************************************)
(* Categories                                                              *)
(***************************************************************************)
create_category ==
    /\ started
    /\ \E h \in Headers :
        \/ Rejected("create_category", h)
        \/ /\ require_admin(h) = 200
           /\ \E payload \in CategoryInputs :
                \/ NoDatabase("create_category", h, payload)
                \/ /\ dbAvailable
                   /\ CanInsert(1)
                   /\ category' = InsertDoc(category, payload, nextId)
                   /\ nextId' = nextId + 1
                   /\ req' = Req("create_category", h, payload)
                   /\ resp' = Resp(200, None, WithId(FindOne(category', NewId(nextId))))
                   /\ UNCHANGED <<dbAvailable, started, seeding, product, content, order>>

update_category ==
    /\ started
    /\ \E h \in Headers :
        \/ Rejected("update_category", h)
        \/ /\ require_admin(h) = 200
           /\ \E category_id \in IdInputs, payload \in CategoryInputs :
                LET arg == [id |-> category_id, payload |-> payload]
                    oid == ObjectId(category_id)
                    new == UpdateOne(category, oid, payload)
                    doc == FindOne(new, oid)
                IN  \/ NoDatabase("update_category", h, arg)
                    \/ /\ dbAvailable
                       /\ req' = Req("update_category", h, arg)
                       /\ IF oid = InvalidId
                          THEN /\ resp' = Resp(400, "Invalid category id", NoDoc)
                               /\ UNCHANGED category
                          ELSE /\ category' = new
                               /\ resp' = IF doc = NoDoc
                                          THEN Resp(404, "Category not found", NoDoc)
                                          ELSE Resp(200, None, WithId(doc))
                       /\ UNCHANGED <<dbAvailable, started, seeding, product, content, order, nextId>>

delete_category ==
    /\ started
    /\ \E h \in Headers :
        \/ Rejected("delete_category", h)
        \/ /\ require_admin(h) = 200
           /\ \E category_id \in IdInputs :
                LET arg == [id |-> category_id]
                    oid == ObjectId(category_id)
                    new == DeleteOne(category, oid)
                IN  \/ NoDatabase("delete_category", h, arg)
                    \/ /\ dbAvailable
                       /\ req' = Req("delete_category", h, arg)
                       /\ IF oid = InvalidId
                          THEN /\ resp' = Resp(400, "Invalid category id", NoDoc)
                               /\ UNCHANGED category
                          ELSE /\ category' = new
                               /\ resp' = IF Len(category) - Len(new) = 0
                                          THEN Resp(404, "Category not found", NoDoc)
                                          ELSE Resp(200, None, [ok |-> TRUE])
                       /\ UNCHANGED <<dbAvailable, started, seeding, product, content, order, nextId>>

(***************************************************************************)
(* Content                                                                 *)
(***************************************************************************)
get_content ==
    /\ started
    /\ req' = Req("get_content", None, NoDoc)
    /\ resp' = IF ~dbAvailable THEN Resp(200, None, fallback_content)
               ELSE IF FindFirst(content) = NoDoc
                    THEN Resp(404, "Content not found", NoDoc)
                    ELSE Resp(200, None, WithId(FindFirst(content)))
    /\ UNCHANGED <<dbAvailable, started, seeding, store, nextId>>

\* mutant: payload.model_dump()
KeepNone(payload) == payload

\* payload.model_dump(exclude_none=True)
ExcludeNone(payload) ==
    [f \in {g \in DOMAIN payload : payload[g] # None} |-> payload[f]]

update_content ==
    /\ started
    /\ \E h \in Headers :
        \/ Rejected("update_content", h)
        \/ /\ require_admin(h) = 200
           /\ \E payload \in ContentInputs :
                LET doc     == FindFirst(content)
                    updates == ExcludeNone(payload)
                    new     == UpdateOne(content, doc._id, updates)
                IN  \/ NoDatabase("update_content", h, payload)
                    \/ /\ dbAvailable
                       /\ req' = Req("update_content", h, payload)
                       /\ IF doc = NoDoc
                          THEN /\ resp' = Resp(404, "Content not found", NoDoc)
                               /\ UNCHANGED content
                          ELSE /\ content' = new
                               /\ resp' = Resp(200, None, WithId(FindOne(new, doc._id)))
                       /\ UNCHANGED <<dbAvailable, started, seeding, product, category, order, nextId>>
                    \/ \* a server that refuses an empty $set: the write error escapes
                       /\ dbAvailable
                       /\ doc # NoDoc
                       /\ DOMAIN updates = {}
                       /\ req' = Req("update_content", h, payload)
                       /\ resp' = Resp(500, "Internal Server Error", NoDoc)
                       /\ UNCHANGED <<dbAvailable, started, seeding, store, nextId>>

(***************************************************************************)
(* Checkout                                                                *)
(***************************************************************************)
\* the identifiers of the cart that parse as ObjectId
CartObjectIds(items) ==
    {ObjectId(items[i].product_id) : i \in 1..Len(items)} \ {InvalidId}

\* the documents of the batch fetch, keyed by str(doc["_id"])
ProductMap(items) ==
    LET ids == CartObjectIds(items)
    IN  IF dbAvailable /\ ids # {}
        THEN SelectSeq(product, LAMBDA d : d._id \in ids)
        ELSE <<>>

\* mutant: a line that resolves to no product is skipped
RECURSIVE PriceLinesSkip(_, _, _, _, _)
PriceLinesSkip(items, product_map, i, items_summary, subtotal) ==
    IF i > Len(items)
    THEN [error |-> None, items |-> items_summary, subtotal |-> subtotal]
    ELSE LET it     == items[i]
             mapped == FindOne(product_map, it.product_id)
             prod   == IF mapped # NoDoc THEN mapped
                       ELSE IF dbAvailable /\ ObjectId(it.product_id) # InvalidId
                            THEN FindOne(product, ObjectId(it.product_id))
                            ELSE NoDoc
             price      == ToDouble(prod.price, 1000)
             line_total == FMul(price, it.quantity)
         IN  IF prod = NoDoc
             THEN PriceLinesSkip(items, product_map, i + 1, items_summary, subtotal)
             ELSE PriceLinesSkip(items, product_map, i + 1,
                                 Append(items_summary,
                                        [product_id |-> prod._id,
                                         title      |-> prod.title,
                                         price      |-> prod.price,
                                         quantity   |-> it.quantity,
                                         line_total |-> PyRound2(line_total)]),
                                 FAdd(subtotal, line_total))

\* the loop over the cart lines from line i on; error is the identifier of
\* the first line that resolves to no product
RECURSIVE PriceLines(_, _, _, _, _)
PriceLines(items, product_map, i, items_summary, subtotal) ==
    IF i > Len(items)
    THEN [error |-> None, items |-> items_summary, subtotal |-> subtotal]
    ELSE LET it     == items[i]
             mapped == FindOne(product_map, it.product_id)
             prod   == IF mapped # NoDoc THEN mapped
                       ELSE IF dbAvailable /\ ObjectId(it.product_id) # InvalidId
                            THEN FindOne(product, ObjectId(it.product_id))
                            ELSE NoDoc
             price      == ToDouble(prod.price, 1000)
             line_total == FMul(price, it.quantity)
         IN  IF prod = NoDoc
             THEN [error |-> it.product_id, items |-> items_summary, subtotal |-> subtotal]
             ELSE PriceLines(items, product_map, i + 1,
                             Append(items_summary,
                                    [product_id |-> prod._id,
                                     title      |-> prod.title,
                                     price      |-> prod.price,
                                     quantity   |-> it.quantity,
                                     line_total |-> PyRound2(line_total)]),
                             FAdd(subtotal, line_total))

\* shipping in cents for a float subtotal
Shipping(subtotal) == IF FLess(subtotal, 50) THEN 500 ELSE 0

OrderDoc(items_summary, subtotal) ==
    [items    |-> items_summary,
     customer |-> Customer,
     notes    |-> None,
     subtotal |-> PyRound2(subtotal),
     shipping |-> Shipping(subtotal),
     total    |-> PyRound2(FAdd(subtotal, ToDouble(Shipping(subtotal), 100))),
     status   |-> "received"]

create_order ==
    /\ started
    /\ \E items \in Carts :
        LET priced    == PriceLines(items, ProductMap(items), 1, <<>>, FZero)
            order_doc == OrderDoc(priced.items, priced.subtotal)
        IN  /\ req' = Req("create_order", None, [items |-> items])
            /\ IF Len(items) = 0
               THEN /\ resp' = Resp(400, "No items in order", NoDoc)
                    /\ UNCHANGED <<store, nextId>>
               ELSE IF priced.error # None
               THEN /\ resp' = Resp(400, "Product not found: " \o priced.error, NoDoc)
                    /\ UNCHANGED <<store, nextId>>
               ELSE IF dbAvailable
               THEN /\ Len(order) < MaxOrders
                    /\ order' = InsertDoc(order, order_doc, nextId)
                    /\ nextId' = nextId + 1
                    /\ resp' = Resp(200, None, [order_id |-> NewId(nextId),
                                                total    |-> order_doc.total,
                                                status   |-> "received"])
                    /\ UNCHANGED <<product, category, content>>
               ELSE /\ resp' = Resp(200, None, [order_id |-> None,
                                                total    |-> order_doc.total,
                                                status   |-> "received"])
                    /\ UNCHANGED <<store, nextId>>
            /\ UNCHANGED <<dbAvailable, started, seeding>>

(***************************************************************************)
(* Specifications                                                          *)
(***************************************************************************)
\* catalog and content administration
NextCatalog ==
    \/ on_startup
    \/ create_product
    \/ update_product
    \/ delete_product
    \/ create_category
    \/ update_category
    \/ delete_category
    \/ get_content
    \/ update_content

SpecCatalog == Init /\ [][NextCatalog]_vars

\* checkout against a catalog an admin extends
NextCheckout ==
    \/ on_startup
    \/ create_product
    \/ create_order

SpecCheckout == Init /\ [][NextCheckout]_vars

\* several processes start against one store while content is administered
NextSeedRace ==
    \/ \E p \in Procs : seed_count_products(p)
    \/ \E p \in Procs : seed_insert_product(p)
    \/ \E p \in Procs : seed_count_content(p)
    \/ \E p \in Procs : seed_insert_content(p)
    \/ update_content

SpecSeedRace == Init /\ [][NextSeedRace]_vars

(***************************************************************************)
(* Checkout properties                                                     *)
(***************************************************************************)
Orders == {order[i] : i \in 1..Len(order)}

\* the float a stored amount (in cents) is
Amount(cents) == ToDouble(cents, 100)

\* C1: every persisted order has total == round(subtotal + shipping, 2),
\* computed from the subtotal and the shipping stored in the order.
C1_TotalIsSubtotalPlusShipping ==
    \A o \in Orders :
        o.total = PyRound2(FAdd(Amount(o.subtotal), Amount(o.shipping)))

RECURSIVE SumLineTotals(_, _)
SumLineTotals(items, i) ==
    IF i = 0 THEN FZero
    ELSE FAdd(SumLineTotals(items, i - 1), Amount(items[i].line_total))

\* C2: every persisted order's subtotal is the sum of its stored (rounded)
\* line totals, rounded to 2 decimals.
C2_SubtotalIsSumOfLineTotals ==
    \A o \in Orders :
        o.subtotal = PyRound2(SumLineTotals(o.items, Len(o.items)))

\* C3: in every persisted order shipping is 0.00 when the stored subtotal is
\* at least 50.00 and 5.00 when it is below 50.00.
C3_ShippingFollowsStoredSubtotal ==
    \A o \in Orders :
        /\ o.subtotal >= 5000 => o.shipping = 0
        /\ o.subtotal < 5000 => o.shipping = 500

\* a cart identifier names a product of the catalog the store can serve
Resolvable(product_id) ==
    /\ dbAvailable
    /\ ObjectId(product_id) # InvalidId
    /\ ObjectId(product_id) \in Ids(product)

Unresolved(items) == {i \in 1..Len(items) : ~Resolvable(items[i].product_id)}

FirstUnresolved(items) ==
    CHOOSE i \in Unresolved(items) : \A j \in Unresolved(items) : i <= j

C5_CheckoutWithoutStoreSucceeds ==
    (req.op = "create_order" /\ ~dbAvailable /\ Len(req.arg.items) > 0) =>
        /\ resp.status = 200
        /\ resp.body.order_id = None
        /\ resp.body.status = "received"
        /\ order = <<>>

(***************************************************************************)
(* Guard, catalog and content properties                                   *)
(***************************************************************************)
GuardedOps ==
    {"create_product", "update_product", "delete_product",
     "create_category", "update_category", "delete_category", "update_content"}

BearerScheme(h) == h # None /\ Len(h) >= 7 /\ SubSeq(h, 1, 7) = "Bearer "

AdminHeader == "Bearer " \o ADMIN_TOKEN

\* C6: the guard's outcome is a function of the Authorization header: 401
\* when it is absent, empty or not of the bearer scheme, 403 when it is of the
\* bearer scheme with a token other than ADMIN_TOKEN, and the endpoint runs
\* (no 401, no 403) only when the token is ADMIN_TOKEN exactly.
C6_GuardOutcomes ==
    req.op \in GuardedOps =>
        /\ resp.status = 401 <=> ~BearerScheme(req.hdr)
        /\ resp.status = 403 <=> (BearerScheme(req.hdr) /\ req.hdr # AdminHeader)
        /\ resp.status \notin {401, 403} <=> req.hdr = AdminHeader

\* a bearer header whose token differs from ADMIN_TOKEN only by a leading
\* space was refused with 403
C6_Witness ==
    /\ req.op \in GuardedOps
    /\ req.hdr = "Bearer  " \o ADMIN_TOKEN
    /\ resp.status = 403

ContentFields == {"hero_title", "hero_subtitle", "hero_image"}

\* C7: an authorised update of the existing content record against a
\* reachable store keeps every field the payload leaves null, sets every
\* field the payload gives, adds and removes no record, and get_content
\* returns the stored record.
C7_ContentMerge ==
    /\ [](req.op = "get_content" /\ dbAvailable /\ resp.status = 200
            => resp.body = WithId(content[1]))
    /\ [][ (req'.op = "update_content" /\ req'.hdr = AdminHeader
                /\ dbAvailable /\ content # <<>>) =>
             /\ Len(content') = Len(content)
             /\ content'[1]._id = content[1]._id
             /\ \A f \in ContentFields :
                    content'[1][f] = IF req'.arg[f] = None THEN content[1][f]
                                     ELSE req'.arg[f]
             /\ resp'.status = 200 => resp'.body = WithId(content'[1]) ]_vars

\* an update that set only hero_image was applied to a record whose
\* hero_title an earlier update had changed, and the title is still there
C7_Witness ==
    /\ req.op = "update_content"
    /\ resp.status = 200
    /\ req.arg = [hero_title |-> None, hero_subtitle |-> None,
                  hero_image |-> "/images/hero.jpg"]
    /\ content[1].hero_title = "Calm from the Forest"
    /\ content[1].hero_subtitle = default_content.hero_subtitle
    /\ content[1].hero_image = "/images/hero.jpg"

\* the collection an update or delete endpoint works on, before and after
CollectionOf(op, p, c) == IF op \in {"update_product", "delete_product"} THEN p ELSE c

\* C8: for an authorised update or delete of a product or category against
\* a reachable store, a malformed id gives 400 and a well-formed id that
\* matches no document gives 404, both leaving the collection unchanged; an
\* update never adds or removes a document; a delete of an existing id
\* removes exactly that document.
C8_UpdateDeleteErrors ==
    [][ (req'.op \in {"update_product", "delete_product",
                      "update_category", "delete_category"}
            /\ req'.hdr = AdminHeader /\ dbAvailable) =>
          LET before == CollectionOf(req'.op, product, category)
              after  == CollectionOf(req'.op, product', category')
              oid    == ObjectId(req'.arg.id)
          IN  /\ oid = InvalidId => resp'.status = 400 /\ after = before
              /\ (oid # InvalidId /\ oid \notin Ids(before)) =>
                     resp'.status = 404 /\ after = before
              /\ req'.op \in {"update_product", "update_category"} =>
                     /\ Len(after) = Len(before)
                     /\ Ids(after) = Ids(before)
              /\ (req'.op \in {"delete_product", "delete_category"}
                     /\ oid \in Ids(before)) =>
                     /\ resp'.status = 200
                     /\ after = SelectSeq(before, LAMBDA d : d._id # oid)
                     /\ Len(after) = Len(before) - 1 ]_vars

\* deleting a well-formed category id that names no category answered 404
\* while a category exists
C8_Witness ==
    /\ req.op = "delete_category"
    /\ dbAvailable
    /\ resp.status = 404
    /\ ObjectId(req.arg.id) # InvalidId
    /\ Len(category) = 1

\* C9: a seeding run that follows a completed seeding run changes neither
\* the product nor the content collection, and any run inserts products only
\* into an empty product collection and content only into an empty content
\* collection.
C9_SeedIdempotent ==
    [][ req'.op = "on_startup" =>
          /\ req'.arg.again => (product' = product /\ content' = content)
          /\ product # <<>> => product' = product
          /\ content # <<>> => content' = content ]_vars

\* seeding ran twice in a row against a reachable store it had filled
C9_Witness ==
    /\ req.op = "on_startup"
    /\ req.arg.again
    /\ dbAvailable
    /\ Len(product) = Len(SAMPLE_PRODUCTS)
    /\ Len(content) = 1

catalog == <<product, category, content>>

\* C10: a guarded request whose header does not carry ADMIN_TOKEN is refused
\* with 401 or 403 and leaves the product, category and content collections
\* unchanged, and a request changes one of these collections only when it is
\* a guarded request carrying ADMIN_TOKEN.
C10_OnlyAdminMutates ==
    [][ /\ (req'.op \in GuardedOps /\ req'.hdr # AdminHeader) =>
              /\ resp'.status \in {401, 403}
              /\ catalog' = catalog
        /\ (catalog' # catalog /\ req'.op # "on_startup") =>
              /\ req'.op \in GuardedOps
              /\ req'.hdr = AdminHeader ]_vars

\* a delete carrying a wrong token was refused while the product it names
\* is in the catalog
C10_Witness ==
    /\ req.op = "delete_product"
    /\ req.hdr = "Bearer wrong-token"
    /\ resp.status = 403
    /\ dbAvailable
    /\ NewId(1) \in Ids(product)

(***************************************************************************)
(* Concurrent startup                                                      *)
(***************************************************************************)
\* C11: the content collection holds at most one record in every reachable
\* state, however many processes run startup seeding against the same store
\* with the content count check and the content insert as separate store
\* operations, and whatever content updates happen in between.
C11_AtMostOneContent == Len(content) <= 1

====
